---- MODULE Spec2Model ----
(***************************************************************************)
(* Model of rampedpyrox.model.model (classes Model and Daem) and of the    *)
(* helpers of rampedpyrox.timedata.timedata_helper that it relies on.      *)
(*                                                                         *)
(* Numbers.  A float is an extended rational <<n, d>>: d > 0 is the finite *)
(* value n/d in lowest terms, <<1, 0>> is +inf, <<-1, 0>> is -inf and      *)
(* <<0, 0>> is NaN.  The arithmetic follows IEEE-754 for the special       *)
(* values; rounding error and the sign of zero are not modelled.           *)
(*                                                                         *)
(* Python values.  A value is a record [ty, v]: ty is "int" or "float"     *)
(* (v an extended rational), "array" (list or np.ndarray, v a sequence) or *)
(* "other" (None, str, tuple, ...: anything the isinstance tests reject).  *)
(***************************************************************************)
EXTENDS Integers, Sequences, FiniteSets, TLC

(* ------------------------------------------------------------------ *)
(* Bounds of the model                                                 *)
(* ------------------------------------------------------------------ *)

\* largest nOm of a sweep
MaxOm == 3
\* largest length of a time series handed to a constructor
MaxNt == 3

(* ------------------------------------------------------------------ *)
(* Extended rationals                                                  *)
(* ------------------------------------------------------------------ *)

Abs(x) == IF x < 0 THEN -x ELSE x

Sgn(x) == IF x < 0 THEN -1 ELSE IF x > 0 THEN 1 ELSE 0

RECURSIVE Gcd(_, _)
Gcd(a, b) == IF b = 0 THEN a ELSE Gcd(b, a % b)

\* the extended rational n/d, d >= 0, in canonical form
Norm(n, d) ==
    IF d = 0 THEN <<Sgn(n), 0>>
    ELSE LET g == Gcd(Abs(n), d) IN <<n \div g, d \div g>>

Rat(n) == <<n, 1>>
NaN == <<0, 0>>
PosInf == <<1, 0>>
NegInf == <<-1, 0>>

IsNaN(a) == a[2] = 0 /\ a[1] = 0
IsInf(a) == a[2] = 0 /\ a[1] # 0
IsFinite(a) == a[2] > 0

\* a + b
RAdd(a, b) ==
    IF IsInf(a) /\ IsInf(b) THEN (IF a = b THEN a ELSE NaN)
    ELSE Norm(a[1] * b[2] + b[1] * a[2], a[2] * b[2])

RNeg(a) == <<-a[1], a[2]>>

\* a - b
RSub(a, b) == RAdd(a, RNeg(b))

\* a * b
RMul(a, b) == Norm(a[1] * b[1], a[2] * b[2])

\* a / b (a zero divisor is +0)
RDiv(a, b) ==
    Norm(a[1] * b[2] * (IF b[1] < 0 THEN -1 ELSE 1), a[2] * Abs(b[1]))

\* a < b as floats compare: false when either is NaN
RLess(a, b) ==
    IF IsNaN(a) \/ IsNaN(b) THEN FALSE
    ELSE IF IsInf(a) \/ IsInf(b)
         THEN a # b /\ (a = NegInf \/ b = PosInf)
         ELSE a[1] * b[2] < b[1] * a[2]

\* Python truthiness of a float: nonzero (NaN and inf included)
Truthy(a) == a # Rat(0)

(* ------------------------------------------------------------------ *)
(* Python values                                                       *)
(* ------------------------------------------------------------------ *)

PyInt(n) == [ty |-> "int", v |-> Rat(n)]
PyFloat(q) == [ty |-> "float", v |-> q]
PyArr(s) == [ty |-> "array", v |-> s]
PyOther == [ty |-> "other", v |-> <<>>]

\* isinstance(x, (int, float))
IsScalar(x) == x.ty \in {"int", "float"}
\* isinstance(x, int)
IsInt(x) == x.ty = "int"
\* isinstance(x, (list, np.ndarray))
IsArray(x) == x.ty = "array"

\* the outcome of a call: a returned value or a raised exception
Ret(x) == [kind |-> "return", exc |-> "", val |-> x]
Raise(e) == [kind |-> "raise", exc |-> e, val |-> <<>>]
Raised(r) == r.kind = "raise"
\* no outcome yet: the call is running
Pending == [kind |-> "pending", exc |-> "", val |-> <<>>]

SeqOf(n, x) == [j \in 1..n |-> x]

(* ------------------------------------------------------------------ *)
(* numpy and the helper functions                                      *)
(* ------------------------------------------------------------------ *)

RECURSIVE Pow10(_)
Pow10(k) == IF k = 0 THEN 1 ELSE 10 * Pow10(k - 1)

\* the exponent e of the power of ten n = 10^e
RECURSIVE ILog10(_)
ILog10(n) == IF n < 10 THEN 0 ELSE 1 + ILog10(n \div 10)

\* np.log10 of a float that is 0, negative, special or a power of ten
Log10(a) ==
    IF IsNaN(a) \/ a[1] < 0 THEN NaN
    ELSE IF a = Rat(0) THEN NegInf
    ELSE IF a = PosInf THEN PosInf
    ELSE Rat(ILog10(a[1]) - ILog10(a[2]))

\* 10**q, kept symbolic: the mapping is one-to-one on the floats
TenTo(q) == [exp10 |-> q]

\* floor(log10(n/d)) of a positive rational
RECURSIVE FloorLog10(_, _)
FloorLog10(n, d) ==
    IF n >= 10 * d THEN 1 + FloorLog10(n, 10 * d)
    ELSE IF n < d THEN FloorLog10(10 * n, d) - 1
    ELSE 0

\* round_to_sigfig(x, sf) of one float: x rounded to sf significant figures
round_to_sigfig(a, sf) ==
    IF ~IsFinite(a) \/ a[1] = 0 THEN a
    ELSE LET n == Abs(a[1])
             d == a[2]
             e == FloorLog10(n, d)
             sh == sf - 1 - e
             num == IF sh >= 0 THEN n * Pow10(sh) ELSE n
             den == IF sh >= 0 THEN d ELSE d * Pow10(-sh)
             m == (2 * num + den) \div (2 * den)
         IN  IF sh >= 0 THEN Norm(Sgn(a[1]) * m, Pow10(sh))
             ELSE Norm(Sgn(a[1]) * m * Pow10(-sh), 1)

\* np.linspace(start, stop, num) for an int num
linspace(start, stop, num) ==
    IF num < 0 THEN Raise("ValueError")
    ELSE LET div == num - 1
             delta == RSub(stop, start)
             step == IF div > 0 THEN RDiv(delta, Rat(div)) ELSE delta
             y == [j \in 1..num |-> RAdd(RMul(Rat(j - 1), step), start)]
         IN  Ret([j \in 1..num |-> IF num > 1 /\ j = num THEN stop ELSE y[j]])

\* np.gradient(y) of a one-dimensional array, unit spacing
gradient(y) ==
    LET n == Len(y) IN
    IF n < 2 THEN Raise("ValueError")
    ELSE Ret([j \in 1..n |->
              IF j = 1 THEN RSub(y[2], y[1])
              ELSE IF j = n THEN RSub(y[n], y[n - 1])
              ELSE RDiv(RSub(y[j + 1], y[j - 1]), Rat(2))])

\* the builtin any(dd): some element is truthy
PyAny(dd) == \E j \in 1..Len(dd) : Truthy(dd[j])

\* the test "any(dd) <= 0": a bool compared with 0, True being 1
AnyLeqZero(dd) == (IF PyAny(dd) THEN 1 ELSE 0) <= 0

\* _assert_lent without the comparison of len(array) with nt
assert_len_unchecked(array, nt) ==
    IF IsScalar(array) THEN Ret(PyArr(SeqOf(nt, array.v)))
    ELSE IF IsArray(array) THEN Ret(array)
    ELSE Raise("TypeError")

\* _assert_lent(array, nt), nt an int
assert_len(array, nt) ==
    IF IsScalar(array) THEN Ret(PyArr(SeqOf(nt, array.v)))
    ELSE IF IsArray(array)
         THEN IF Len(array.v) # nt THEN Raise("ValueError")
              ELSE Ret(array)
         ELSE Raise("TypeError")

\* _derivatize(num, denom)
derivatize(num, denom) ==
    IF ~(IsScalar(num) \/ IsArray(num)) THEN Raise("TypeError")
    ELSE IF ~IsArray(denom) THEN Raise("TypeError")
    ELSE LET gn == IF IsScalar(num) THEN Ret(<<>>) ELSE gradient(num.v)
             dn == IF Raised(gn) THEN SeqOf(Len(denom.v), Rat(0)) ELSE gn.val
             gd == gradient(denom.v)
             dd == gd.val
         IN  IF Raised(gd) THEN gd
             ELSE IF Len(dn) # Len(dd) THEN Raise("ValueError")
             ELSE IF AnyLeqZero(dd)
                  THEN Ret(PyArr(SeqOf(Len(denom.v), Rat(0))))
                  ELSE Ret(PyArr([j \in 1..Len(dn) |-> RDiv(dn[j], dd[j])]))

\* (np.abs(d2)/(1+dy**2)**1.5)**2: the square of the curvature, which
\* orders the points as the curvature does
Curvature2(d2, dy) ==
    LET w == RAdd(Rat(1), RMul(dy, dy))
    IN  RDiv(RMul(d2, d2), RMul(w, RMul(w, w)))

\* np.argmax scans for the first largest element, a NaN counting as largest
RECURSIVE ArgmaxFrom(_, _, _)
ArgmaxFrom(k, j, best) ==
    IF j > Len(k) THEN best
    ELSE IF ~IsNaN(k[best]) /\ (IsNaN(k[j]) \/ RLess(k[best], k[j]))
         THEN ArgmaxFrom(k, j + 1, j)
         ELSE ArgmaxFrom(k, j + 1, best)

\* an argmax that keeps the last largest element
RECURSIVE ArgmaxLastFrom(_, _, _)
ArgmaxLastFrom(k, j, best) ==
    IF j > Len(k) THEN best
    ELSE IF ~IsNaN(k[best]) /\ (IsNaN(k[j]) \/ ~RLess(k[j], k[best]))
         THEN ArgmaxLastFrom(k, j + 1, j)
         ELSE ArgmaxLastFrom(k, j + 1, best)

argmax_last(k) == ArgmaxLastFrom(k, 2, 1)

\* np.argmax(k), as a 1-based index
argmax(k) == ArgmaxFrom(k, 2, 1)

(* ------------------------------------------------------------------ *)
(* Constructors                                                        *)
(* ------------------------------------------------------------------ *)

\* the names model.py binds at module level by its import statements
ModuleNames ==
    {"plt", "np", "assert_len", "derivatize", "round_to_sigfig",
     "_calc_f", "_rpo_calc_A"}

\* warnings.warn(...): looking up the global name warnings comes first
warnings_warn ==
    IF "warnings" \in ModuleNames THEN Ret(<<>>) ELSE Raise("NameError")

\* no object: the value of the variable model before the first construction
\* and after a construction that raised
NoModel ==
    [nt |-> 0, cls |-> "None", A |-> PyOther, model_type |-> "",
     t |-> PyOther, T |-> PyOther, Ea |-> PyOther, nEa |-> 0,
     log10k0 |-> PyOther]

\* Model.__init__(self, A, model_type, t, T): the object, or the exception
Model__init__(A, model_type, t, T) ==
    IF ~IsArray(t) THEN Raise("TypeError")
    ELSE LET nt == Len(t.v)
             rt == assert_len(t, nt)
             rT == assert_len(T, nt)
             rA == assert_len(A, nt)
         IN  IF Raised(rt) THEN rt
             ELSE IF Raised(rT) THEN rT
             ELSE IF Raised(rA) THEN rA
             ELSE Ret([NoModel EXCEPT !.cls = "Model", !.A = rA.val,
                          !.model_type = model_type, !.nt = nt,
                          !.t = rt.val, !.T = rT.val])

\* _rpo_calc_A(Ea, log10k0, t, T): the nt x nEa transform matrix, each row
\* standing for its nEa entries; the lengths of T and of an array log10k0
\* are validated
rpo_calc_A(Ea, log10k0, t, T) ==
    IF ~IsArray(t) \/ ~IsArray(Ea) THEN Raise("TypeError")
    ELSE IF IsArray(T) /\ Len(T.v) # Len(t.v) THEN Raise("ValueError")
    ELSE IF ~IsScalar(T) /\ ~IsArray(T) THEN Raise("ValueError")
    ELSE IF IsArray(log10k0) /\ Len(log10k0.v) # Len(Ea.v)
         THEN Raise("ValueError")
    ELSE IF ~IsScalar(log10k0) /\ ~IsArray(log10k0) /\ log10k0.ty # "lambda"
         THEN Raise("ValueError")
    ELSE Ret(PyArr(SeqOf(Len(t.v), Rat(Len(Ea.v)))))

\* Daem.__init__(self, Ea, log10k0, t, T): [res: the object or the
\* exception, warned: whether a warning was issued]
Daem__init__(Ea, log10k0, t, T) ==
    LET w == IF IsScalar(T) THEN warnings_warn ELSE Ret(<<>>)
        warned == IsScalar(T) /\ ~Raised(w)
        rA == rpo_calc_A(Ea, log10k0, t, T)
        rM == Model__init__(rA.val, "Daem", t, T)
        rEa == assert_len(Ea, Len(Ea.v))
    IN  IF Raised(w) THEN [warned |-> FALSE, res |-> w]
        ELSE IF Raised(rA) THEN [warned |-> warned, res |-> rA]
        ELSE IF Raised(rM) THEN [warned |-> warned, res |-> rM]
        ELSE IF Raised(rEa) THEN [warned |-> warned, res |-> rEa]
        ELSE [warned |-> warned,
              res |-> Ret([rM.val EXCEPT !.cls = "Daem",
                              !.log10k0 = log10k0, !.Ea = rEa.val,
                              !.nEa = Len(Ea.v)])]

\* the keyword parameters of Daem.from_timedata and their defaults
from_timedata_defaults ==
    [nEa |-> PyInt(250), log10k0 |-> PyInt(10), Ea_max |-> PyInt(350),
     Ea_min |-> PyInt(50)]

\* Daem.from_timedata(cls, timedata, **kw): kw maps the keywords of the
\* call to their values
from_timedata(timedata, kw) ==
    IF ~(DOMAIN kw \subseteq DOMAIN from_timedata_defaults)
    THEN [warned |-> FALSE, res |-> Raise("TypeError")]
    ELSE LET arg(n) == IF n \in DOMAIN kw THEN kw[n]
                       ELSE from_timedata_defaults[n]
             w == IF timedata.cls # "RpoThermogram" THEN warnings_warn
                  ELSE Ret(<<>>)
             warned == timedata.cls # "RpoThermogram" /\ ~Raised(w)
             rEa == linspace(arg("Ea_min").v, arg("Ea_max").v,
                             arg("nEa").v[1])
             d == Daem__init__(PyArr(rEa.val), arg("log10k0"), timedata.t,
                               timedata.T)
         IN  IF Raised(w) THEN [warned |-> FALSE, res |-> w]
             ELSE IF Raised(rEa) THEN [warned |-> warned, res |-> rEa]
             ELSE [warned |-> warned \/ d.warned, res |-> d.res]

\* Daem.from_ratedata(cls, ratedata, beta, log10k0, nt, t0, T0, tf)
from_ratedata(ratedata, beta, log10k0, nt, t0, T0, tf) ==
    IF ratedata.cls # "EnergyComplex"
    THEN [warned |-> FALSE, res |-> Raise("TypeError")]
    ELSE LET rt == linspace(t0, tf, nt)
             t == rt.val
             T == [j \in 1..Len(t) |-> RAdd(T0, RMul(beta, t[j]))]
         IN  IF Raised(rt) THEN [warned |-> FALSE, res |-> rt]
             ELSE Daem__init__(ratedata.Ea, log10k0, PyArr(t), PyArr(T))

(* ------------------------------------------------------------------ *)
(* Model.calc_L_curve                                                  *)
(* ------------------------------------------------------------------ *)

\* the significant figures kept of the logarithms of the norms
SigFigs == 6

\* check_form without the test of nOm
check_form_no_nOm(om_max, om_min, nOm) ==
    IF ~IsScalar(om_max) THEN Raise("TypeError")
    ELSE IF ~IsScalar(om_min) THEN Raise("TypeError")
    ELSE Ret(<<>>)

\* the isinstance checks on om_max, om_min and nOm
check_form(om_max, om_min, nOm) ==
    IF ~IsScalar(om_max) THEN Raise("TypeError")
    ELSE IF ~IsScalar(om_min) THEN Raise("TypeError")
    ELSE IF ~IsInt(nOm) THEN Raise("TypeError")
    ELSE Ret(<<>>)

\* log_om_vec = np.linspace(np.log10(om_min), np.log10(om_max), nOm)
log_om_vec(om_max, om_min, nOm) ==
    linspace(Log10(om_min.v), Log10(om_max.v), nOm.v[1])

\* an iteration that catches the exception and goes on to the next point
on_calc_f_raise_skip(l, e) ==
    [pc |-> "sweep", result |-> Pending,
     lc |-> [l EXCEPT !.i = l.i + 1, !.failed_at = l.i + 1]]

\* what one iteration of the sweep does when _calc_f raises e: nothing
\* catches it, the exception leaves calc_L_curve
on_calc_f_raise(l, e) ==
    [pc |-> "idle", result |-> Raise(e), lc |-> [l EXCEPT !.failed_at = l.i + 1]]

\* what one iteration does when _calc_f returns (f, res, rgh)
on_calc_f_return(l, res, rgh) ==
    [l EXCEPT !.i = l.i + 1,
              !.res_vec = Append(l.res_vec, res),
              !.rgh_vec = Append(l.rgh_vec, rgh)]

\* the steps after the loop: [res: the index i of om_best (1-based) or
\* the exception, k: the squared curvatures]
corner(res_list, rgh_list) ==
    LET n == Len(res_list)
        res_vec == PyArr([j \in 1..n |->
                          round_to_sigfig(Log10(res_list[j]), SigFigs)])
        rgh_vec == PyArr([j \in 1..n |->
                          round_to_sigfig(Log10(rgh_list[j]), SigFigs)])
        dydx == derivatize(rgh_vec, res_vec)
        dy2d2x == derivatize(dydx.val, res_vec)
        k == [j \in 1..n |-> Curvature2(dy2d2x.val.v[j], dydx.val.v[j])]
    IN  IF Raised(dydx) THEN [k |-> <<>>, res |-> dydx]
        ELSE IF Raised(dy2d2x) THEN [k |-> <<>>, res |-> dy2d2x]
        ELSE [k |-> k, res |-> Ret(<<argmax(k)>>)]

\* the value calc_L_curve returns: om_best, with the axis when plot is set
returned(om_vec, i, plot) ==
    Ret([om_best |-> om_vec[i], ax |-> plot])

\* calc_L_curve keeping the selected omega on self
store_om_best(m, om_best) ==
    [x \in DOMAIN m \cup {"om_best"} |->
        IF x = "om_best" THEN om_best ELSE m[x]]

\* the attributes calc_L_curve assigns on self: none
store_on_self(m, om_best) == m

(* ------------------------------------------------------------------ *)
(* State                                                               *)
(* ------------------------------------------------------------------ *)

VARIABLES
    model,    \* the object the last constructor call made, or NoModel
    ctor,     \* the last constructor call: [op, args]
    result,   \* the outcome of the last call that ended
    warned,   \* whether the last constructor call issued a warning
    pc,       \* "idle", or "sweep" inside the loop of calc_L_curve
    lc        \* the locals of the current or last calc_L_curve call

vars == <<model, ctor, result, warned, pc, lc>>

NoCall ==
    [k |-> <<>>, i |-> 0, failed_at |-> 0,
     res_vec |-> <<>>, rgh_vec |-> <<>>, om_vec |-> <<>>,
     args |-> [om_max |-> PyOther, om_min |-> PyOther, nOm |-> PyOther,
               plot |-> FALSE],
     called |-> FALSE, tried |-> <<>>, calc_exc |-> "", ibest |-> 0]

Init ==
    /\ model = NoModel
    /\ ctor = [args |-> <<>>, op |-> "none"]
    /\ result = Ret(<<>>)
    /\ warned = FALSE
    /\ pc = "idle"
    /\ lc = NoCall

(* ------------------------------------------------------------------ *)
(* Inputs                                                              *)
(* ------------------------------------------------------------------ *)

\* time arrays 0, 1, ..., n-1 and temperature ramps 373, 374, ...
TimeArrs == {PyArr([j \in 1..n |-> Rat(j - 1)]) : n \in 1..MaxNt}
TempArrs == {PyArr([j \in 1..n |-> Rat(372 + j)]) : n \in 1..MaxNt}
Isothermal == PyInt(373)

EaGrid == PyArr(<<Rat(50), Rat(350)>>)

Log10k0s == {PyInt(10), PyArr(<<Rat(10), Rat(10)>>),
             PyArr(<<Rat(10), Rat(10), Rat(10)>>)}

\* the transform matrices handed to Model.__init__ directly: r rows
Matrices == {PyArr(SeqOf(r, Rat(2))) : r \in 1..MaxNt}

\* TimeData instances: an RpoThermogram or another subclass, with series of
\* one length or an isothermal temperature
TimeDatas ==
    {[cls |-> c, t |-> PyArr([j \in 1..n |-> Rat(j - 1)]),
      T |-> IF iso THEN Isothermal ELSE PyArr([j \in 1..n |-> Rat(372 + j)])] :
        c \in {"RpoThermogram", "TimeData"}, n \in 1..MaxNt,
        iso \in BOOLEAN}

\* the keyword arguments of the from_timedata calls: as in the docstring,
\* with log10k0 left to its default, and as in tests/test_script.py
KwDoc(n) ==
    [nEa |-> PyInt(n), log10k0 |-> PyInt(10), Ea_max |-> PyInt(350),
     Ea_min |-> PyInt(50)]
KwShort == [nEa |-> PyInt(2), Ea_max |-> PyInt(350), Ea_min |-> PyInt(50)]
KwTestScript ==
    [log10k0 |-> PyInt(10), E_max |-> PyInt(400), E_min |-> PyInt(50),
     nE |-> PyInt(400)]
KwCalls == {KwDoc(2), KwDoc(3), KwShort, KwTestScript}

RateDatas == {[cls |-> c, Ea |-> EaGrid] : c \in {"EnergyComplex", "RateData"}}

OmMaxs == {PyOther, PyInt(0), PyInt(100)}
OmMins == {PyOther, PyInt(-1), PyFloat(<<1, 10>>)}
NOms == {PyFloat(Rat(2)), PyInt(-1), PyInt(0)} \cup {PyInt(n) : n \in 1..MaxOm}

\* what _calc_f can do at a sweep point: return norms (f is not kept), fail
\* on a singular system, or fail on an observed curve of the wrong length
ResNorms == {Rat(1), Rat(10), Rat(100)}
RghNorms == {Rat(1), Rat(10)}
calc_f_outcomes ==
    {Ret(<<res, rgh>>) : res \in ResNorms, rgh \in RghNorms}
        \cup {Raise("SingularSystemError"), Raise("ValueError")}

(* ------------------------------------------------------------------ *)
(* Actions                                                             *)
(* ------------------------------------------------------------------ *)

\* a constructor call that ended with r = [res, warned]; the variable model
\* follows one object, so that nothing is constructed once it exists
Constructed(op, args, r) ==
    /\ pc = "idle"
    /\ model.cls = "None"
    /\ ctor' = [args |-> args, op |-> op]
    /\ model' = IF Raised(r.res) THEN NoModel ELSE r.res.val
    /\ result' = IF Raised(r.res) THEN r.res ELSE Ret(<<>>)
    /\ warned' = r.warned
    /\ lc' = NoCall
    /\ pc' = "idle"

\* Model(A, model_type, t, T)
NewModel ==
    \E A \in Matrices, t \in TimeArrs, T \in TempArrs \cup {Isothermal} :
        Constructed("Model", [A |-> A, t |-> t, T |-> T],
                    [warned |-> FALSE, res |-> Model__init__(A, "Model", t, T)])

\* Daem(Ea, log10k0, t, T)
NewDaem ==
    \E log10k0 \in Log10k0s, t \in TimeArrs \cup {PyOther},
       T \in TempArrs \cup {Isothermal, PyOther} :
        Constructed("Daem",
                    [t |-> t, T |-> T, Ea |-> EaGrid, log10k0 |-> log10k0],
                    Daem__init__(EaGrid, log10k0, t, T))

\* Daem.from_timedata(timedata, **kw)
NewFromTimedata ==
    \E timedata \in TimeDatas, kw \in KwCalls :
        Constructed("from_timedata", [timedata |-> timedata, kw |-> kw],
                    from_timedata(timedata, kw))

\* Daem.from_ratedata(ratedata, beta, log10k0, nt, t0, T0, tf)
NewFromRatedata ==
    \E ratedata \in RateDatas, nt \in 1..MaxNt, t0 \in {Rat(0), Rat(1)} :
        LET beta == Rat(2)
            T0 == Rat(373)
            tf == Rat(4)
        IN  Constructed("from_ratedata",
                [nt |-> nt, ratedata |-> ratedata, beta |-> beta, t0 |-> t0,
                 T0 |-> T0, tf |-> tf],
                from_ratedata(ratedata, beta, PyInt(10), nt, t0, T0, tf))

\* model.calc_L_curve(timedata, nOm, om_max, om_min, plot) up to its loop
LCurveCall ==
    /\ pc = "idle"
    /\ model.cls # "None"
    /\ \E om_max \in OmMaxs, om_min \in OmMins, nOm \in NOms,
          plot \in BOOLEAN :
        LET args == [om_max |-> om_max, om_min |-> om_min, nOm |-> nOm,
                     plot |-> plot]
            chk == check_form(om_max, om_min, nOm)
            lv == log_om_vec(om_max, om_min, nOm)
            l0 == [NoCall EXCEPT !.args = args, !.called = TRUE]
        IN  IF Raised(chk)
            THEN /\ pc' = "idle" /\ result' = chk /\ lc' = l0
            ELSE IF Raised(lv)
            THEN /\ pc' = "idle" /\ result' = lv /\ lc' = l0
            ELSE /\ pc' = "sweep"
                 /\ result' = Pending
                 /\ lc' = [l0 EXCEPT !.om_vec =
                              [j \in 1..Len(lv.val) |-> TenTo(lv.val[j])]]
    /\ UNCHANGED <<model, ctor, warned>>

\* one iteration of the loop: _, res, rgh = _calc_f(self, timedata, w)
LCurveStep ==
    /\ pc = "sweep"
    /\ lc.i < Len(lc.om_vec)
    /\ \E o \in calc_f_outcomes :
        LET l == [lc EXCEPT !.tried = Append(lc.tried, lc.om_vec[lc.i + 1]),
                            !.calc_exc = o.exc]
        IN  IF Raised(o)
            THEN LET n == on_calc_f_raise(l, o.exc)
                 IN  /\ pc' = n.pc /\ result' = n.result /\ lc' = n.lc
            ELSE /\ pc' = "sweep"
                 /\ result' = result
                 /\ lc' = on_calc_f_return(l, o.val[1], o.val[2])
    /\ UNCHANGED <<ctor, warned>>
    /\ model' = model

\* after the loop: logarithms, rounding, curvature, argmax, return
LCurveFinish ==
    /\ pc = "sweep"
    /\ lc.i >= Len(lc.om_vec)
    /\ LET c == corner(lc.res_vec, lc.rgh_vec)
       IN  IF Raised(c.res)
           THEN /\ result' = c.res
                /\ lc' = lc
                /\ model' = model
           ELSE LET i == c.res.val[1]
                IN  /\ result' = returned(lc.om_vec, i, lc.args.plot)
                    /\ lc' = [lc EXCEPT !.k = c.k, !.ibest = i]
                    /\ model' = store_on_self(model, lc.om_vec[i])
    /\ pc' = "idle"
    /\ UNCHANGED <<ctor, warned>>

\* the constructors: every way of making the object
Next ==
    \/ NewModel
    \/ NewDaem
    \/ NewFromTimedata
    \/ NewFromRatedata

Spec == Init /\ [][Next]_vars

\* the objects the L-curve is computed on: a Daem of a ramp of MaxNt points
\* and a bare Model with an isothermal temperature
LCurveModels ==
    LET t == PyArr([j \in 1..MaxNt |-> Rat(j - 1)])
        T == PyArr([j \in 1..MaxNt |-> Rat(372 + j)])
    IN  {Daem__init__(EaGrid, PyInt(10), t, T).res.val,
         Model__init__(PyArr(SeqOf(MaxNt, Rat(2))), "Model", t,
                       Isothermal).val}

InitLCurve ==
    /\ model \in LCurveModels
    /\ ctor = [args |-> <<>>, op |-> "none"]
    /\ result = Ret(<<>>)
    /\ warned = FALSE
    /\ pc = "idle"
    /\ lc = NoCall

\* the calls of calc_L_curve on a constructed object
NextLCurve ==
    \/ LCurveCall
    \/ LCurveStep
    \/ LCurveFinish

SpecLCurve == InitLCurve /\ [][NextLCurve]_vars

(* ------------------------------------------------------------------ *)
(* Properties of calc_L_curve (checked under SpecLCurve)               *)
(* ------------------------------------------------------------------ *)

\* the arguments of the current or last call
Args == lc.args

\* x is a number greater than zero
IsPositive(x) == IsScalar(x) /\ RLess(Rat(0), x.v)

\* the sweep parameters are malformed in the spec's sense: nOm is not a
\* positive integer, or om_min or om_max is not a positive number
Malformed ==
    \/ ~IsInt(Args.nOm) \/ ~IsPositive(Args.nOm)
    \/ ~IsPositive(Args.om_min)
    \/ ~IsPositive(Args.om_max)

\* a parameter has the wrong type: what the isinstance checks look at
WrongType ==
    ~IsScalar(Args.om_max) \/ ~IsScalar(Args.om_min) \/ ~IsInt(Args.nOm)

\* C1 as stated: in a call with malformed sweep parameters (a count that
\* is not a positive integer, a bound that is not a positive number) no
\* _calc_f is ever invoked, and the call ends in an exception.
C1_MalformedRejected ==
    (lc.called /\ Malformed) =>
        (lc.tried = <<>> /\ (pc = "idle" => Raised(result)))

\* C1 amended: a call whose om_max or om_min is not an int or float, or whose
\* nOm is not an int, raises TypeError at once; a call whose nOm is an int
\* below 1 also ends in an exception; in both cases no _calc_f is invoked.
C1_WrongTypeRejected ==
    /\ (lc.called /\ WrongType) =>
          (pc = "idle" /\ result = Raise("TypeError") /\ lc.tried = <<>>)
    /\ (lc.called /\ ~WrongType /\ ~IsPositive(Args.nOm)) =>
          (lc.tried = <<>> /\ (pc = "idle" => Raised(result)))

\* a call with a float nOm and numeric bounds has been rejected
C1_Witness ==
    /\ lc.called /\ pc = "idle"
    /\ Args.nOm = PyFloat(Rat(2))
    /\ IsScalar(Args.om_max) /\ IsScalar(Args.om_min)
    /\ result = Raise("TypeError")

\* a >= b in the order np.argmax uses: a NaN is the largest value
CurvGeq(a, b) == IsNaN(a) \/ (~IsNaN(b) /\ ~RLess(a, b))

\* i is the smallest index at which k takes its largest value
IsFirstMax(k, i) ==
    /\ i \in 1..Len(k)
    /\ \A j \in 1..Len(k) : CurvGeq(k[i], k[j])
    /\ \A j \in 1..(i - 1) : ~CurvGeq(k[j], k[i])

\* C4: a call that returns, returns the candidate at the smallest sweep
\* index whose curvature is the largest of the sweep (a NaN curvature counts
\* as the largest, as in np.argmax), which is one of the nOm candidates.
C4_FirstMaxCurvature ==
    (lc.called /\ pc = "idle" /\ result.kind = "return") =>
        /\ Len(lc.om_vec) = Args.nOm.v[1]
        /\ Len(lc.k) = Len(lc.om_vec)
        /\ IsFirstMax(lc.k, lc.ibest)
        /\ result.val.om_best = lc.om_vec[lc.ibest]

\* a call has returned on a sweep of three points of finite curvature, the
\* largest of which a later point attains too
C4_Witness ==
    /\ lc.called /\ pc = "idle" /\ result.kind = "return"
    /\ IsPositive(Args.om_min) /\ IsPositive(Args.om_max)
    /\ Len(lc.k) = 3
    /\ \A j \in 1..3 : IsFinite(lc.k[j])
    /\ \E j \in (lc.ibest + 1)..3 : lc.k[j] = lc.k[lc.ibest]

\* C5 as stated: a call with nOm = 1 and positive bounds, whose one inversion
\* succeeds, returns the single candidate.
C5_SinglePointReturns ==
    (/\ lc.called /\ pc = "idle"
     /\ Args.nOm = PyInt(1)
     /\ IsPositive(Args.om_min) /\ IsPositive(Args.om_max)
     /\ lc.failed_at = 0) =>
        /\ result.kind = "return"
        /\ Len(lc.tried) = 1
        /\ result.val.om_best = lc.om_vec[1]

\* C6: when _calc_f raises at a sweep point, the call has ended with that
\* very exception, the points tried are the candidates up to the failing one
\* in sweep order, unaltered, and no best omega has been selected.
C6_SweepAborts ==
    (lc.called /\ lc.failed_at > 0) =>
        /\ pc = "idle"
        /\ result = Raise(lc.calc_exc)
        /\ Len(lc.tried) = lc.failed_at
        /\ lc.tried = SubSeq(lc.om_vec, 1, lc.failed_at)
        /\ lc.ibest = 0

\* the inversion has failed at the second of three sweep points
C6_Witness ==
    /\ lc.called /\ lc.failed_at = 2 /\ Len(lc.om_vec) = 3
    /\ IsPositive(Args.om_min) /\ IsPositive(Args.om_max)
    /\ result = Raise("SingularSystemError")

\* C7: no step of calc_L_curve, in a call that returns or in one that
\* raises, changes the object: A, t, T, nt, Ea, nEa and log10k0 keep their
\* values and no attribute is added.
C7_ModelUnchanged == [][model' = model]_vars

\* a call with plot set has returned on a Daem after three inversions
C7_Witness ==
    /\ lc.called /\ pc = "idle" /\ result.kind = "return"
    /\ IsPositive(Args.om_min) /\ IsPositive(Args.om_max)
    /\ Args.plot /\ model.cls = "Daem" /\ Len(lc.tried) = 3

(* ------------------------------------------------------------------ *)
(* Properties of the constructors (checked under Spec)                 *)
(* ------------------------------------------------------------------ *)

\* s is strictly increasing
Increasing(s) == \A j \in 1..(Len(s) - 1) : RLess(s[j], s[j + 1])

\* s runs from lo to hi in equal steps
EvenlySpaced(s, lo, hi) ==
    /\ Len(s) >= 2 /\ s[1] = lo /\ s[Len(s)] = hi
    /\ \A j \in 1..(Len(s) - 1) : RSub(s[j + 1], s[j]) = RSub(s[2], s[1])

\* the log10k0 of a Daem call is a constant or an array of the grid's length
Log10k0Fits(a) ==
    IsScalar(a.log10k0) \/ (IsArray(a.log10k0) /\ Len(a.log10k0.v) = Len(a.Ea.v))

\* C2 as stated: Daem(Ea, log10k0, t, T) with a scalar T and otherwise valid
\* arguments issues a warning and yields a Daem whose T is the scalar
\* repeated nt times.
C2_IsothermalAccepted ==
    (/\ ctor.op = "Daem"
     /\ IsScalar(ctor.args.T) /\ IsArray(ctor.args.t)
     /\ Log10k0Fits(ctor.args)) =>
        /\ result.kind = "return"
        /\ warned
        /\ model.cls = "Daem"
        /\ model.T = PyArr(SeqOf(Len(ctor.args.t.v), ctor.args.T.v))

\* the companion object of the last call is not of the expected class
CompanionMismatch ==
    \/ /\ ctor.op = "from_timedata"
       /\ ctor.args.timedata.cls # "RpoThermogram"
       /\ DOMAIN ctor.args.kw \subseteq DOMAIN from_timedata_defaults
       /\ IsArray(ctor.args.timedata.T)
    \/ /\ ctor.op = "from_ratedata"
       /\ ctor.args.ratedata.cls # "EnergyComplex"

\* C3 as stated: on both paths a companion object of another class only
\* draws a warning, and the Daem is built and returned.
C3_MismatchAdvisory ==
    CompanionMismatch =>
        (result.kind = "return" /\ warned /\ model.cls = "Daem")

\* the arrays of the last call do not all have the length of t
LengthMismatch ==
    \/ /\ ctor.op = "Model"
       /\ \/ IsArray(ctor.args.T) /\ Len(ctor.args.T.v) # Len(ctor.args.t.v)
          \/ Len(ctor.args.A.v) # Len(ctor.args.t.v)
    \/ /\ ctor.op = "Daem"
       /\ IsArray(ctor.args.t) /\ IsArray(ctor.args.T)
       /\ Len(ctor.args.T.v) # Len(ctor.args.t.v)

\* C8: a construction in which an array T, or the matrix A by its rows, has
\* not the length of t raises ValueError and makes no object; every object
\* made has len(t) = len(T) = rows of A = nt.
C8_EqualLengths ==
    /\ LengthMismatch => (result = Raise("ValueError") /\ model = NoModel)
    /\ model.cls # "None" =>
          /\ model.nt = Len(model.t.v)
          /\ Len(model.T.v) = model.nt
          /\ Len(model.A.v) = model.nt

\* Model(A, model_type, t, T) was refused for a matrix of the wrong number
\* of rows, T being of the length of t
C8_Witness ==
    /\ ctor.op = "Model"
    /\ Len(ctor.args.A.v) # Len(ctor.args.t.v)
    /\ IsArray(ctor.args.T) /\ Len(ctor.args.T.v) = Len(ctor.args.t.v)
    /\ result = Raise("ValueError") /\ model = NoModel

\* C9 as stated: from_timedata called as tests/test_script.py calls it (a
\* thermogram, log10k0 = 10, E_max, E_min, nE) returns a Daem whose grid has
\* nE evenly spaced increasing values from E_min to E_max and whose t and T
\* are the thermogram's.
C9_TestScriptCall ==
    (/\ ctor.op = "from_timedata"
     /\ ctor.args.kw = KwTestScript
     /\ ctor.args.timedata.cls = "RpoThermogram"
     /\ IsArray(ctor.args.timedata.T)) =>
        /\ result.kind = "return"
        /\ model.cls = "Daem"
        /\ model.nEa = KwTestScript.nE.v[1]
        /\ Len(model.Ea.v) = model.nEa
        /\ EvenlySpaced(model.Ea.v, KwTestScript.E_min.v, KwTestScript.E_max.v)
        /\ Increasing(model.Ea.v)
        /\ model.t = ctor.args.timedata.t
        /\ model.T = ctor.args.timedata.T

\* C10 as stated: from_ratedata with an EnergyComplex, t0 < tf and nt >= 2
\* returns a Daem whose t has nt increasing points from t0 to tf, whose T has
\* the same length, rises by beta per unit of time and is T0 at t0, and
\* whose grid is the ratedata's Ea.
C10_RampFromT0 ==
    (/\ ctor.op = "from_ratedata"
     /\ ctor.args.ratedata.cls = "EnergyComplex"
     /\ RLess(ctor.args.t0, ctor.args.tf)
     /\ ctor.args.nt >= 2) =>
        /\ result.kind = "return"
        /\ model.cls = "Daem"
        /\ Len(model.t.v) = ctor.args.nt
        /\ Increasing(model.t.v)
        /\ model.t.v[1] = ctor.args.t0
        /\ model.t.v[ctor.args.nt] = ctor.args.tf
        /\ Len(model.T.v) = ctor.args.nt
        /\ \A j \in 1..(ctor.args.nt - 1) :
              RSub(model.T.v[j + 1], model.T.v[j]) =
                  RMul(ctor.args.beta, RSub(model.t.v[j + 1], model.t.v[j]))
        /\ model.T.v[1] = ctor.args.T0
        /\ model.Ea = ctor.args.ratedata.Ea

(* ------------------------------------------------------------------ *)
(* The helper functions of timedata_helper.py, called on their own      *)
(* ------------------------------------------------------------------ *)

\* arrays of 1..MaxNt elements drawn from vals
ArraysOver(vals) ==
    {PyArr(s) : s \in UNION {[1..n -> vals] : n \in 1..MaxNt}}

\* numerators: a non-numeric object, scalars, arrays
DerivNums ==
    {PyOther, PyInt(5), PyFloat(<<1, 2>>)} \cup ArraysOver({Rat(0), Rat(3)})

\* denominators: a non-array object, a scalar, arrays that rise, stall, fall
DerivDenoms ==
    {PyOther, PyInt(1)} \cup ArraysOver({Rat(0), Rat(1), Rat(2)})

\* the truth value Python gives a str: the empty string alone is false
StrTruthy(s) == s # ""

\* _rpo_extract_tg(file, nt, err).  file is [ty, columns, index]: ty is
\* "str" (a path pd.read_csv can read), "DataFrame" or "other"; columns and
\* index are those of the table, read from the path when file is a str.
\* The value returned stands for (g, g_std, t, T) by the four lengths.
rpo_extract_tg(file, nt, err) ==
    IF file.ty \notin {"str", "DataFrame"} THEN Raise("TypeError")
    ELSE IF StrTruthy("CO2_scaled") /\ "temp" \notin file.columns
         THEN Raise("ValueError")
    ELSE IF file.index # "DatetimeIndex" THEN Raise("TypeError")
    ELSE IF "CO2_scaled" \notin file.columns THEN Raise("AttributeError")
    ELSE Ret(SeqOf(4, nt))

\* the column names a table may carry
ColumnNames == {"CO2_scaled", "temp", "CO2_raw"}

\* the files handed to _rpo_extract_tg
Files ==
    {[ty |-> "other", columns |-> {}, index |-> "None"]} \cup
    {[ty |-> ty, columns |-> cols, index |-> ix] :
        ty \in {"str", "DataFrame"}, cols \in SUBSET ColumnNames,
        ix \in {"DatetimeIndex", "RangeIndex"}}

\* one call of a helper: the call and its outcome are recorded
HelperCalled(op, args, r) ==
    /\ pc = "idle"
    /\ ctor.op = "none"
    /\ ctor' = [args |-> args, op |-> op]
    /\ result' = r
    /\ UNCHANGED <<model, warned, pc, lc>>

\* _derivatize(num, denom)
CallDerivatize ==
    \E num \in DerivNums, denom \in DerivDenoms :
        HelperCalled("_derivatize", [num |-> num, denom |-> denom],
                     derivatize(num, denom))

\* _rpo_extract_tg(file, nt, err)
CallRpoExtractTg ==
    \E file \in Files, nt \in 1..MaxNt :
        HelperCalled("_rpo_extract_tg",
                     [nt |-> nt, file |-> file, err |-> PyInt(5)],
                     rpo_extract_tg(file, nt, PyInt(5)))

NextHelpers ==
    \/ CallDerivatize
    \/ CallRpoExtractTg

SpecHelpers == Init /\ [][NextHelpers]_vars

(* ------------------------------------------------------------------ *)
(* Claims about the helper functions (under SpecHelpers)                *)
(* ------------------------------------------------------------------ *)

\* the inputs C11 speaks of: denom an array np.gradient accepts, num a
\* scalar or an array of the same length
DerivApplies ==
    /\ ctor.op = "_derivatize"
    /\ IsArray(ctor.args.denom)
    /\ Len(ctor.args.denom.v) >= 2
    /\ \/ IsScalar(ctor.args.num)
       \/ /\ IsArray(ctor.args.num)
          /\ Len(ctor.args.num.v) = Len(ctor.args.denom.v)

\* some discrete gradient step of s is zero or negative
SomeStepNotPositive(s) ==
    \E j \in 1..Len(s) : ~RLess(Rat(0), gradient(s).val[j])

\* C11 as stated: _derivatize(num, denom) returns zeros of length len(denom)
\* whenever some gradient step of denom is zero or negative and whenever num
\* is a scalar; otherwise it returns gradient(num)/gradient(denom),
\* element by element.
C11_ZerosOrQuotient ==
    DerivApplies =>
        LET num == ctor.args.num
            denom == ctor.args.denom
            n == Len(denom.v)
        IN  IF IsScalar(num) \/ SomeStepNotPositive(denom.v)
            THEN result = Ret(PyArr(SeqOf(n, Rat(0))))
            ELSE result = Ret(PyArr([j \in 1..n |->
                                 RDiv(gradient(num.v).val[j],
                                      gradient(denom.v).val[j])]))

\* C12 as stated: _rpo_extract_tg raises ValueError for every table (given
\* as a DataFrame or read from a path) that lacks the "CO2_scaled" column or
\* lacks the "temp" column, a table with "temp" but no "CO2_scaled"
\* included; a table that has both columns passes this check.
C12_MissingColumnRejected ==
    (/\ ctor.op = "_rpo_extract_tg"
     /\ ctor.args.file.ty \in {"str", "DataFrame"}) =>
        IF {"CO2_scaled", "temp"} \subseteq ctor.args.file.columns
        THEN result # Raise("ValueError")
        ELSE result = Raise("ValueError")

====
